---- MODULE Spec2Model ----
(***************************************************************************)
(* Verification model of the asynchronous CSV trace writer of GetToken     *)
(* (Diagnostics::detail::CsvTracer and the Diagnostics::Trace entry        *)
(* points).                                                                *)
(*                                                                         *)
(* Threads: "main" calls Enable, Disable and Write; every thread of        *)
(* Producers calls Write only; the consumer is the std::async task of the  *)
(* CsvTracer.  Each thread advances one C++ statement per step.            *)
(*                                                                         *)
(* FormatSpec is the formatting of one record in WriteAllMessages, over    *)
(* all short texts.  MainSpec is the coroutine MainAsync and the return of *)
(* main, with the broker answering each call as it likes.  RunSpec is      *)
(* main from the command line on, with the trace writer.  RequestSpec is   *)
(* Option::Properties and GetWebTokenRequest; Base64Spec and DecodeSpec    *)
(* are the base64 functions; JwtSpec is PrintJwt; ResponseSpec is the      *)
(* output of one token response.                                           *)
(***************************************************************************)
EXTENDS Integers, Sequences, FiniteSets, TLC

\* ---------------------------------------------------------------- bounds
\* Total number of TraceData records created in one run.
MaxRecords == 2
\* Number of Enable calls that reach the constructor in one run.
MaxEnables == 2

\* ---------------------------------------------------------------- threads
Main == "main"
Producers == {"p1"}
Writers == {Main} \cup Producers

VARIABLES
    tracer,       \* _tracer.has_value()
    buffer,       \* _buffer: the records queued in the unbounded_buffer
    bufferAlive,  \* the lifetime of _buffer has begun and not ended
    writeTask,    \* _writeTask: position of the consumer task
    cts,          \* _cts: TRUE once cancel() was called
    hFile,        \* _hFile holds an open file handle
    hBuffReady,   \* _hBuffReady holds an open event handle
    signaled,     \* state of the auto-reset event behind _hBuffReady
    file,         \* the lines of the output file
    pc,           \* position of each calling thread
    data,         \* the TraceData each thread (and the consumer) holds
    tasks,        \* number of consumer tasks started and not yet returned
    crashed,      \* the process died on an access to a destroyed _buffer
    lastOp,       \* per thread: the last entry point called and its outcome
    now,          \* system_clock::now(): number of records created so far
    enables,      \* number of constructor runs so far
    enq,          \* history: records sent to the current _buffer, in order
    raced,        \* history: records sent to _buffer after _cts.cancel()
    accepted,     \* history: records whose Write returned before Disable
    \* formatting of one record in WriteAllMessages
    text,         \* the characters passed to Write
    message,      \* data->Message, changed in place
    pos,          \* position of the range-for over message
    formatted,    \* the characters handed to ::WriteFile
    fpc,          \* position inside the loop body of WriteAllMessages
    \* MainAsync and main
    option,       \* the parsed options used by MainAsync
    co,           \* position of the coroutine MainAsync
    found,        \* provider is not null
    accountsStatus, \* findResults.Status()
    accounts,     \* findResults.Accounts()
    visited,      \* accounts passed by the range-for over accounts
    webAccounts,  \* the accounts collected for the silent requests
    iAccount,     \* i, the index of the silent loop
    done,         \* flag of the silent loop
    pResult,      \* outcome of the last silent token request
    calls,        \* history: broker calls issued, in order
    reported,     \* history: errors written by Logger
    result,       \* <<value>> once co_return has set one, else <<>>
    exitCode,     \* <<value>> once main has returned, else <<>>
    pending,      \* broker calls issued and not yet completed
    request,      \* prompt type of the WebTokenRequest built last
    args,         \* what the parser found on the command line
    \* Option::Properties and GetWebTokenRequest
    propValues,   \* m_properties: the values of the -p arguments, in order
    flags,        \* WamCompat() and ClaimCapability()
    propIndex,    \* i of the loop of Option::Properties
    map,          \* the unordered_map built by Option::Properties
    properties,   \* request.Properties()
    toInsert,     \* keys of map the range-for has not reached yet
    rpc,          \* position in GetWebTokenRequest
    \* base64 round trip
    bytes,        \* the bytes to encode
    b64,          \* their base64 text
    url,          \* the base64url text made of it
    back,         \* what decode_base64url gives for it
    bpc,          \* position in the round trip
    \* PrintJwt
    token,        \* the token given to PrintJwt
    begin,        \* begin of the split loop (from 1)
    tokenParts,   \* the parts found so far
    decodes,      \* the texts decode_base64url was called with
    json,         \* header and payload as printed
    jpc,          \* position in PrintJwt
    \* the output of one token response
    rsp,          \* position in the handling of the response
    showToken,    \* option.ShowToken()
    response,     \* the WebTokenResponse: properties and provider error
    console,      \* the messages given to Console::WriteLine, in order
    traced        \* the messages given to Trace::Write, in order

tracerState == <<tracer, buffer, bufferAlive, writeTask, cts, hFile,
                 hBuffReady, signaled, file, tasks, crashed>>
history == <<now, enables, enq, raced, accepted>>
vars == <<tracer, buffer, bufferAlive, writeTask, cts, hFile, hBuffReady,
          signaled, file, pc, data, tasks, crashed, lastOp, now, enables,
          enq, raced, accepted>>

formatVars == <<text, message, pos, formatted, fpc>>
mainVars == <<option, co, found, accountsStatus, accounts, visited,
              webAccounts, iAccount, done, pResult, calls, reported, result,
              exitCode, pending, request, args>>
requestVars == <<propValues, flags, propIndex, map, properties, toInsert,
                 rpc>>
base64Vars == <<bytes, b64, url, back, bpc>>
jwtVars == <<token, begin, tokenParts, decodes, json, jpc>>
outputVars == <<rsp, showToken, response, console, traced>>
idle == <<base64Vars, jwtVars, outputVars>>
\* What the trace writer never touches.
outside == <<formatVars, mainVars, requestVars, base64Vars, jwtVars,
             outputVars>>

Consumer == "consumer"
\* A line of the file is the header or the TraceData of one record.
Header == [line |-> "date-time,thread-id,message"]
NoData == [ThreadId |-> "none", Time |-> 0]
TraceData(t, time) == [ThreadId |-> t, Time |-> time]
Records == {TraceData(t, n) : t \in Writers, n \in 1..MaxRecords}

Range(s) == {s[i] : i \in 1..Len(s)}
Count(s, x) == Cardinality({i \in 1..Len(s) : s[i] = x})

CtorStates == {"ctor_async", "ctor_header", "ctor_return"}
DtorStates == {"dtor_cancel", "dtor_set", "dtor_receive", "dtor_write",
               "dtor_hBuffReady", "dtor_hFile", "dtor_writeTask",
               "dtor_buffer"}
WriteStates == {"send", "set"}
TaskRunning == {"wait", "parked", "receive", "write", "canceled"}

\* No record is being formatted.
FormatRest ==
    /\ text = <<>>
    /\ message = <<>>
    /\ pos = 1
    /\ formatted = <<>>
    /\ fpc = "rest"

\* No request is being built.
RequestRest ==
    /\ propValues = <<>>
    /\ flags = [WamCompat |-> FALSE, ClaimCapability |-> FALSE]
    /\ propIndex = 0
    /\ map = <<>>
    /\ properties = <<>>
    /\ toInsert = {}
    /\ rpc = "rest"

\* Nothing is encoded or decoded.
Base64Rest ==
    /\ bytes = <<>>
    /\ b64 = <<>>
    /\ url = <<>>
    /\ back = [threw |-> FALSE, value |-> <<>>]
    /\ bpc = "rest"

\* No token response is handled.
OutputRest ==
    /\ rsp = "rest"
    /\ showToken = FALSE
    /\ response = [Properties |-> 0, ProviderError |-> FALSE]
    /\ console = <<>>
    /\ traced = <<>>

\* PrintJwt is not called.
JwtRest ==
    /\ token = <<>>
    /\ begin = 1
    /\ tokenParts = <<>>
    /\ decodes = <<>>
    /\ json = <<>>
    /\ jpc = "rest"

\* MainAsync is not called.
MainRest ==
    /\ option = [SignOut |-> FALSE, ShowAccountsOnly |-> FALSE]
    /\ co = "rest"
    /\ found = FALSE
    /\ accountsStatus = "none"
    /\ accounts = <<>>
    /\ visited = 0
    /\ webAccounts = <<>>
    /\ iAccount = 0
    /\ done = FALSE
    /\ pResult = "none"
    /\ calls = <<>>
    /\ reported = {}
    /\ result = <<>>
    /\ exitCode = <<>>
    /\ pending = {}
    /\ request = "none"
    /\ args = [Throws |-> FALSE, Unknown |-> FALSE, Help |-> FALSE,
               Version |-> FALSE, NoTrace |-> TRUE]

\* No writer was ever constructed.
TracerRest ==
    /\ tracer = FALSE
    /\ buffer = <<>>
    /\ bufferAlive = FALSE
    /\ writeTask = "none"
    /\ cts = FALSE
    /\ hFile = FALSE
    /\ hBuffReady = FALSE
    /\ signaled = FALSE
    /\ file = <<>>
    /\ pc = [t \in Writers |-> "idle"]
    /\ data = [t \in Writers \cup {Consumer} |-> NoData]
    /\ tasks = 0
    /\ crashed = FALSE
    /\ lastOp = [t \in Writers |-> "none"]
    /\ now = 0
    /\ enables = 0
    /\ enq = <<>>
    /\ raced = {}
    /\ accepted = {}

Init ==
    /\ TracerRest /\ FormatRest /\ MainRest /\ RequestRest
    /\ Base64Rest /\ JwtRest /\ OutputRest

\* ---------------------------------------------------------------- Win32
\* ::WriteFile on _hFile: appends the line when the handle is open, fails
\* (and is ignored by the caller) when the handle was closed.
WriteFile(f, open, line) == IF open THEN Append(f, line) ELSE f

\* SetEvent on _hBuffReady, an auto-reset event: a task parked in the wait is
\* released and the event stays reset; with no task parked the event becomes
\* signaled.  On a closed handle the call fails with ERROR_INVALID_HANDLE,
\* which the callers ignore.
SetEvent ==
    /\ signaled' = IF hBuffReady /\ writeTask # "parked" THEN TRUE
                   ELSE signaled
    /\ writeTask' = IF hBuffReady /\ writeTask = "parked" THEN "receive"
                    ELSE writeTask

\* ---------------------------------------------------------------- Enable
\* CsvTracer::CsvTracer up to the start of the consumer: the member
\* initialisers (_buffer, _writeTask, _cts, _hFile, _hBuffReady with
\* CreateEventW) and CreateFileW with CREATE_ALWAYS, which truncates the file.
CtorOpen ==
    /\ enables < MaxEnables
    /\ buffer' = <<>>
    /\ bufferAlive' = TRUE
    /\ cts' = FALSE
    /\ hBuffReady' = TRUE
    /\ signaled' = FALSE
    /\ hFile' = TRUE
    /\ file' = <<>>
    /\ enables' = enables + 1
    /\ enq' = <<>>
    /\ raced' = {}
    /\ accepted' = {}
    /\ pc' = [pc EXCEPT ![Main] = "ctor_async"]
    /\ UNCHANGED <<tracer, writeTask, data, tasks, crashed, lastOp, now>>
    /\ UNCHANGED outside

\* Variant of CtorOpenFails: the consumer is started before the result of
\* CreateFileW is checked, and survives the throw.
CtorOpenFails_TaskStarted ==
    /\ lastOp' = [lastOp EXCEPT ![Main] = "Enable:system_error"]
    /\ writeTask' = "wait"
    /\ tasks' = tasks + 1
    /\ UNCHANGED <<tracer, buffer, bufferAlive, cts, hFile, hBuffReady,
                   signaled, file, crashed, pc, data, history>>
    /\ UNCHANGED outside

\* CreateFileW returned INVALID_HANDLE_VALUE: the constructor throws
\* std::system_error, the members built so far are destroyed again (the event
\* handle is closed, no task was started) and emplace leaves _tracer empty.
CtorOpenFails ==
    /\ lastOp' = [lastOp EXCEPT ![Main] = "Enable:system_error"]
    /\ UNCHANGED <<tracerState, pc, data, history>>
    /\ UNCHANGED outside

\* Variant of Enable: the check of _tracer is missing.
Enable_NoCheck ==
    /\ pc[Main] = "idle"
    /\ \E opened \in BOOLEAN :
           IF opened THEN CtorOpen ELSE CtorOpenFails
    /\ UNCHANGED outside

\* Diagnostics::Trace::Enable: throws std::runtime_error when _tracer holds a
\* value, otherwise emplaces a CsvTracer.
Enable ==
    /\ pc[Main] = "idle"
    /\ IF tracer
       THEN /\ lastOp' = [lastOp EXCEPT ![Main] = "Enable:runtime_error"]
            /\ UNCHANGED <<tracerState, pc, data, history>>
       ELSE \E opened \in BOOLEAN :
                IF opened THEN CtorOpen ELSE CtorOpenFails
    /\ UNCHANGED outside

\* _writeTask = std::async(std::launch::async, ...): the consumer starts.
CtorAsync ==
    /\ pc[Main] = "ctor_async"
    /\ writeTask' = "wait"
    /\ tasks' = tasks + 1
    /\ pc' = [pc EXCEPT ![Main] = "ctor_header"]
    /\ UNCHANGED <<tracer, buffer, bufferAlive, cts, hFile, hBuffReady,
                   signaled, file, data, crashed, lastOp, history>>
    /\ UNCHANGED outside

\* Variant of CtorHeader: the header is not written.
CtorHeader_NoHeader ==
    /\ pc[Main] = "ctor_header"
    /\ pc' = [pc EXCEPT ![Main] = "ctor_return"]
    /\ UNCHANGED <<tracerState, data, lastOp, history>>
    /\ UNCHANGED outside

\* ::WriteFile of the header line.
CtorHeader ==
    /\ pc[Main] = "ctor_header"
    /\ file' = WriteFile(file, hFile, Header)
    /\ pc' = [pc EXCEPT ![Main] = "ctor_return"]
    /\ UNCHANGED <<tracer, buffer, bufferAlive, writeTask, cts, hFile,
                   hBuffReady, signaled, data, tasks, crashed, lastOp,
                   history>>
    /\ UNCHANGED outside

\* The constructor returns and optional::emplace sets has_value.
CtorReturn ==
    /\ pc[Main] = "ctor_return"
    /\ tracer' = TRUE
    /\ pc' = [pc EXCEPT ![Main] = "idle"]
    /\ lastOp' = [lastOp EXCEPT ![Main] = "Enable:ok"]
    /\ UNCHANGED <<buffer, bufferAlive, writeTask, cts, hFile, hBuffReady,
                   signaled, file, data, tasks, crashed, history>>
    /\ UNCHANGED outside

\* ---------------------------------------------------------------- Write
\* Variant of WriteCall: the check of _tracer is missing.
WriteCall_NoCheck(t) ==
    /\ pc[t] = "idle"
    /\ now + Cardinality({u \in Writers : pc[u] = "send"}) < MaxRecords
    /\ pc' = [pc EXCEPT ![t] = "send"]
    /\ UNCHANGED <<tracerState, data, lastOp, history>>
    /\ UNCHANGED outside

\* Diagnostics::detail::Write: the check of _tracer.  A call that finds no
\* value returns at once.  (The guard on now only bounds the run.)
WriteCall(t) ==
    /\ pc[t] = "idle"
    /\ IF tracer
       THEN /\ now + Cardinality({u \in Writers : pc[u] = "send"}) < MaxRecords
            /\ pc' = [pc EXCEPT ![t] = "send"]
            /\ UNCHANGED lastOp
       ELSE /\ lastOp' = [lastOp EXCEPT ![t] = "Write:noop"]
            /\ UNCHANGED pc
    /\ UNCHANGED <<tracerState, data, history>>
    /\ UNCHANGED outside

\* Variant of WriteSend: a bounded queue, send waits while a record is queued.
WriteSend_Bounded(t) ==
    /\ pc[t] = "send"
    /\ buffer = <<>>
    /\ now' = now + 1
    /\ data' = [data EXCEPT ![t] = TraceData(t, now + 1)]
    /\ IF bufferAlive
       THEN /\ buffer' = Append(buffer, TraceData(t, now + 1))
            /\ enq' = Append(enq, TraceData(t, now + 1))
            /\ raced' = IF cts THEN raced \cup {TraceData(t, now + 1)}
                        ELSE raced
            /\ pc' = [pc EXCEPT ![t] = "set"]
            /\ UNCHANGED crashed
       ELSE /\ \E dies \in BOOLEAN :
                /\ crashed' = dies
                /\ pc' = IF dies THEN [u \in Writers |-> "crashed"]
                         ELSE [pc EXCEPT ![t] = "set"]
            /\ UNCHANGED <<buffer, enq, raced>>
    /\ UNCHANGED <<tracer, bufferAlive, writeTask, cts, hFile, hBuffReady,
                   signaled, file, tasks, lastOp, enables, accepted>>
    /\ UNCHANGED outside

\* CsvTracer::Write, first statement: make_shared<TraceData> and
\* Concurrency::send.  A thread that passed the check of _tracer before
\* Disable destroyed the writer sends to a _buffer whose lifetime has ended:
\* the record is lost, or the access kills the process (every thread stops).
WriteSend(t) ==
    /\ pc[t] = "send"
    /\ now' = now + 1
    /\ data' = [data EXCEPT ![t] = TraceData(t, now + 1)]
    /\ IF bufferAlive
       THEN /\ buffer' = Append(buffer, TraceData(t, now + 1))
            /\ enq' = Append(enq, TraceData(t, now + 1))
            /\ raced' = IF cts THEN raced \cup {TraceData(t, now + 1)}
                        ELSE raced
            /\ pc' = [pc EXCEPT ![t] = "set"]
            /\ UNCHANGED crashed
       ELSE /\ \E dies \in BOOLEAN :
                /\ crashed' = dies
                /\ pc' = IF dies THEN [u \in Writers |-> "crashed"]
                         ELSE [pc EXCEPT ![t] = "set"]
            /\ UNCHANGED <<buffer, enq, raced>>
    /\ UNCHANGED <<tracer, bufferAlive, writeTask, cts, hFile, hBuffReady,
                   signaled, file, tasks, lastOp, enables, accepted>>
    /\ UNCHANGED outside

\* CsvTracer::Write, second statement: SetEvent(_hBuffReady), then return.
WriteSet(t) ==
    /\ pc[t] = "set"
    /\ SetEvent
    /\ pc' = [pc EXCEPT ![t] = "idle"]
    /\ data' = [data EXCEPT ![t] = NoData]
    /\ lastOp' = [lastOp EXCEPT ![t] = "Write:ok"]
    /\ accepted' = IF tracer /\ pc[Main] \notin DtorStates
                   THEN accepted \cup {data[t]} ELSE accepted
    /\ UNCHANGED <<tracer, buffer, bufferAlive, cts, hFile, hBuffReady, file,
                   tasks, crashed, now, enables, enq, raced>>
    /\ UNCHANGED outside

\* ---------------------------------------------------------------- consumer
\* WaitForSingleObject(_hBuffReady, INFINITE): returns at once when the event
\* is signaled (and resets it) or when the handle is invalid (WAIT_FAILED);
\* otherwise the task parks until SetEvent releases it.
TaskWait ==
    /\ writeTask = "wait"
    /\ IF ~hBuffReady
       THEN writeTask' = "receive" /\ UNCHANGED signaled
       ELSE IF signaled
            THEN writeTask' = "receive" /\ signaled' = FALSE
            ELSE writeTask' = "parked" /\ UNCHANGED signaled
    /\ UNCHANGED <<tracer, buffer, bufferAlive, cts, hFile, hBuffReady, file,
                   pc, data, tasks, crashed, lastOp, history>>
    /\ UNCHANGED outside

\* Variant of TaskReceive: the consumer takes the newest record of the queue
\* instead of the oldest.
TaskReceive_Newest ==
    /\ writeTask = "receive"
    /\ IF buffer # <<>>
       THEN /\ data' = [data EXCEPT ![Consumer] = buffer[Len(buffer)]]
            /\ buffer' = SubSeq(buffer, 1, Len(buffer) - 1)
            /\ writeTask' = "write"
       ELSE /\ writeTask' = "canceled"
            /\ UNCHANGED <<data, buffer>>
    /\ UNCHANGED <<tracer, bufferAlive, cts, hFile, hBuffReady, signaled,
                   file, pc, tasks, crashed, lastOp, history>>
    /\ UNCHANGED outside

\* WriteAllMessages in the consumer: Concurrency::try_receive.
TaskReceive ==
    /\ writeTask = "receive"
    /\ IF buffer # <<>>
       THEN /\ data' = [data EXCEPT ![Consumer] = Head(buffer)]
            /\ buffer' = Tail(buffer)
            /\ writeTask' = "write"
       ELSE /\ writeTask' = "canceled"
            /\ UNCHANGED <<data, buffer>>
    /\ UNCHANGED <<tracer, bufferAlive, cts, hFile, hBuffReady, signaled,
                   file, pc, tasks, crashed, lastOp, history>>
    /\ UNCHANGED outside

\* Variant of TaskWrite: one record per wake, no loop back to try_receive.
TaskWrite_OnePerWake ==
    /\ writeTask = "write"
    /\ file' = WriteFile(file, hFile, data[Consumer])
    /\ data' = [data EXCEPT ![Consumer] = NoData]
    /\ writeTask' = "canceled"
    /\ UNCHANGED <<tracer, buffer, bufferAlive, cts, hFile, hBuffReady,
                   signaled, pc, tasks, crashed, lastOp, history>>
    /\ UNCHANGED outside

\* WriteAllMessages in the consumer: format and ::WriteFile, then loop.
TaskWrite ==
    /\ writeTask = "write"
    /\ file' = WriteFile(file, hFile, data[Consumer])
    /\ data' = [data EXCEPT ![Consumer] = NoData]
    /\ writeTask' = "receive"
    /\ UNCHANGED <<tracer, buffer, bufferAlive, cts, hFile, hBuffReady,
                   signaled, pc, tasks, crashed, lastOp, history>>
    /\ UNCHANGED outside

\* if (cancelToken.is_canceled()) return; otherwise wait again.
TaskCanceled ==
    /\ writeTask = "canceled"
    /\ IF cts
       THEN writeTask' = "done" /\ tasks' = tasks - 1
       ELSE writeTask' = "wait" /\ UNCHANGED tasks
    /\ UNCHANGED <<tracer, buffer, bufferAlive, cts, hFile, hBuffReady,
                   signaled, file, pc, data, crashed, lastOp, history>>
    /\ UNCHANGED outside

Task == TaskWait \/ TaskReceive \/ TaskWrite \/ TaskCanceled

\* ---------------------------------------------------------------- Disable
\* Variant of Disable: the destructor is run without the check of _tracer.
Disable_NoCheck ==
    /\ pc[Main] = "idle"
    /\ pc' = [pc EXCEPT ![Main] = "dtor_cancel"]
    /\ UNCHANGED lastOp
    /\ UNCHANGED <<tracerState, data, history>>
    /\ UNCHANGED outside

\* Diagnostics::Trace::Disable: _tracer.reset() when _tracer holds a value;
\* optional::reset runs ~CsvTracer and clears has_value only afterwards.
Disable ==
    /\ pc[Main] = "idle"
    /\ IF tracer
       THEN /\ pc' = [pc EXCEPT ![Main] = "dtor_cancel"]
            /\ UNCHANGED lastOp
       ELSE /\ lastOp' = [lastOp EXCEPT ![Main] = "Disable:noop"]
            /\ UNCHANGED pc
    /\ UNCHANGED <<tracerState, data, history>>
    /\ UNCHANGED outside

\* ~CsvTracer body: _cts.cancel().
DtorCancel ==
    /\ pc[Main] = "dtor_cancel"
    /\ cts' = TRUE
    /\ pc' = [pc EXCEPT ![Main] = "dtor_set"]
    /\ UNCHANGED <<tracer, buffer, bufferAlive, writeTask, hFile, hBuffReady,
                   signaled, file, data, tasks, crashed, lastOp, history>>
    /\ UNCHANGED outside

\* Variant of DtorSet: the destructor does not set the event.
DtorSet_NoSetEvent ==
    /\ pc[Main] = "dtor_set"
    /\ pc' = [pc EXCEPT ![Main] = "dtor_receive"]
    /\ UNCHANGED <<tracerState, data, lastOp, history>>
    /\ UNCHANGED outside

\* ~CsvTracer body: SetEvent(_hBuffReady).
DtorSet ==
    /\ pc[Main] = "dtor_set"
    /\ SetEvent
    /\ pc' = [pc EXCEPT ![Main] = "dtor_receive"]
    /\ UNCHANGED <<tracer, buffer, bufferAlive, cts, hFile, hBuffReady, file,
                   data, tasks, crashed, lastOp, history>>
    /\ UNCHANGED outside

\* ~CsvTracer body: WriteAllMessages on the calling thread, try_receive.
DtorReceive ==
    /\ pc[Main] = "dtor_receive"
    /\ IF buffer # <<>>
       THEN /\ data' = [data EXCEPT ![Main] = Head(buffer)]
            /\ buffer' = Tail(buffer)
            /\ pc' = [pc EXCEPT ![Main] = "dtor_write"]
       ELSE /\ pc' = [pc EXCEPT ![Main] = "dtor_hBuffReady"]
            /\ UNCHANGED <<data, buffer>>
    /\ UNCHANGED <<tracer, bufferAlive, writeTask, cts, hFile, hBuffReady,
                   signaled, file, tasks, crashed, lastOp, history>>
    /\ UNCHANGED outside

\* ~CsvTracer body: WriteAllMessages on the calling thread, ::WriteFile.
DtorWrite ==
    /\ pc[Main] = "dtor_write"
    /\ file' = WriteFile(file, hFile, data[Main])
    /\ data' = [data EXCEPT ![Main] = NoData]
    /\ pc' = [pc EXCEPT ![Main] = "dtor_receive"]
    /\ UNCHANGED <<tracer, buffer, bufferAlive, writeTask, cts, hFile,
                   hBuffReady, signaled, tasks, crashed, lastOp, history>>
    /\ UNCHANGED outside

\* Members are destroyed in reverse order of declaration; _hBuffReady, the
\* last member, goes first: CloseHandle on the event.  Closing the handle
\* under a pending wait is undefined: the parked task stays parked or
\* returns from the wait.
DtorCloseEvent ==
    /\ pc[Main] = "dtor_hBuffReady"
    /\ hBuffReady' = FALSE
    /\ signaled' = FALSE
    /\ writeTask' \in (IF writeTask = "parked" THEN {"parked", "receive"}
                       ELSE {writeTask})
    /\ pc' = [pc EXCEPT ![Main] = "dtor_hFile"]
    /\ UNCHANGED <<tracer, buffer, bufferAlive, cts, hFile, file, data, tasks,
                   crashed, lastOp, history>>
    /\ UNCHANGED outside

\* ~_hFile: CloseHandle on the file (~_cts follows and changes nothing).
DtorCloseFile ==
    /\ pc[Main] = "dtor_hFile"
    /\ hFile' = FALSE
    /\ pc' = [pc EXCEPT ![Main] = "dtor_writeTask"]
    /\ UNCHANGED <<tracer, buffer, bufferAlive, writeTask, cts, hBuffReady,
                   signaled, file, data, tasks, crashed, lastOp, history>>
    /\ UNCHANGED outside

\* ~_writeTask: the future of std::async blocks until the task has returned.
DtorJoin ==
    /\ pc[Main] = "dtor_writeTask"
    /\ writeTask = "done"
    /\ writeTask' = "none"
    /\ pc' = [pc EXCEPT ![Main] = "dtor_buffer"]
    /\ UNCHANGED <<tracer, buffer, bufferAlive, cts, hFile, hBuffReady,
                   signaled, file, data, tasks, crashed, lastOp, history>>
    /\ UNCHANGED outside

\* ~_buffer drops what is still queued; optional::reset then clears
\* has_value and Disable returns.
DtorBuffer ==
    /\ pc[Main] = "dtor_buffer"
    /\ buffer' = <<>>
    /\ bufferAlive' = FALSE
    /\ tracer' = FALSE
    /\ pc' = [pc EXCEPT ![Main] = "idle"]
    /\ lastOp' = [lastOp EXCEPT ![Main] = "Disable:ok"]
    /\ UNCHANGED <<writeTask, cts, hFile, hBuffReady, signaled, file, data,
                   tasks, crashed, history>>
    /\ UNCHANGED outside

Dtor ==
    \/ DtorCancel \/ DtorSet \/ DtorReceive \/ DtorWrite
    \/ DtorCloseEvent \/ DtorCloseFile \/ DtorJoin \/ DtorBuffer

\* ---------------------------------------------------------------- callers
\* main() enables tracing before any other thread of the run can be inside
\* Write: Enable is called while no producer thread is between the check of
\* _tracer and its return.
ProducersIdle == \A p \in Producers : pc[p] = "idle"

CallEnable == ProducersIdle /\ Enable

Next ==
    \/ CallEnable
    \/ CtorAsync
    \/ CtorHeader
    \/ CtorReturn
    \/ \E t \in Writers : WriteCall(t)
    \/ \E t \in Writers : WriteSend(t)
    \/ \E t \in Writers : WriteSet(t)
    \/ Disable
    \/ DtorCancel
    \/ DtorSet
    \/ DtorReceive
    \/ DtorWrite
    \/ DtorCloseEvent
    \/ DtorCloseFile
    \/ DtorJoin
    \/ DtorBuffer
    \/ TaskWait
    \/ TaskReceive
    \/ TaskWrite
    \/ TaskCanceled

Spec == Init /\ [][Next]_vars

\* The scheduler runs every thread that can take a step: the consumer task,
\* the thread inside ~CsvTracer, and a thread inside CsvTracer::Write.
Fairness ==
    /\ WF_vars(Task)
    /\ WF_vars(Dtor)
    /\ \A t \in Writers : WF_vars(WriteSend(t) \/ WriteSet(t))

LiveSpec == Init /\ [][Next]_vars /\ Fairness

TypeOK ==
    /\ tracer \in BOOLEAN
    /\ buffer \in Seq(Records)
    /\ writeTask \in {"none", "done"} \cup TaskRunning
    /\ \A t \in Producers : pc[t] \in {"idle", "crashed"} \cup WriteStates
    /\ pc[Main] \in {"idle", "crashed"} \cup WriteStates \cup CtorStates
                                       \cup DtorStates
    /\ crashed <=> (\A t \in Writers : pc[t] = "crashed")
    /\ tasks \in 0..1

\* ------------------------------------------------ WriteAllMessages: format
\* One pass of the loop body of CsvTracer::WriteAllMessages over one record:
\* a string is the sequence of its characters.
MaxText == 3
Chars == {"a", "'", "\"", "\n"}
Texts == UNION {[1..n -> Chars] : n \in 0..MaxText}
\* std::format of Time with "{0:%F}T{0:%T%z}" and of ThreadId with "{1}":
\* digits and the signs - : + T only.
TimeField == "2024-08-08T12:00:00+0900"
ThreadIdField == "4242"

\* TraceData::TraceData copies the characters passed to Write into Message.
FormatInit ==
    /\ Base64Rest
    /\ JwtRest
    /\ OutputRest
    /\ TracerRest
    /\ MainRest
    /\ RequestRest
    /\ text \in Texts
    /\ message = text
    /\ pos = 1
    /\ formatted = <<>>
    /\ fpc = "replace"

\* for (auto& c : message) { if (c == '"') c = '\''; }  -- one character.
ReplaceQuote ==
    /\ fpc = "replace"
    /\ pos <= Len(message)
    /\ message' = [message EXCEPT ![pos] = IF @ = "\"" THEN "'" ELSE @]
    /\ pos' = pos + 1
    /\ UNCHANGED <<text, formatted, fpc, vars, mainVars, requestVars, idle>>

\* string_view::ends_with('\n') and remove_suffix(1).
RemoveSuffix(view) ==
    IF view # <<>> /\ view[Len(view)] = "\n"
    THEN SubSeq(view, 1, Len(view) - 1)
    ELSE view

\* std::format("{0:%F}T{0:%T%z},{1},\"{2}\"\n", Time, ThreadId, view).
Format(view) ==
    <<TimeField, ",", ThreadIdField, ",", "\"">> \o view \o <<"\"", "\n">>

\* Variant of FormatLine: the view keeps its trailing newline.
FormatLine_KeepSuffix ==
    /\ fpc = "replace"
    /\ pos > Len(message)
    /\ formatted' = Format(message)
    /\ fpc' = "written"
    /\ UNCHANGED <<text, message, pos, vars, mainVars, requestVars, idle>>

\* After the range-for: the view, remove_suffix, std::format, ::WriteFile.
FormatLine ==
    /\ fpc = "replace"
    /\ pos > Len(message)
    /\ formatted' = Format(RemoveSuffix(message))
    /\ fpc' = "written"
    /\ UNCHANGED <<text, message, pos, vars, mainVars, requestVars, idle>>

FormatNext ==
    \/ ReplaceQuote
    \/ FormatLine

FormatSpec == FormatInit /\ [][FormatNext]_<<vars, outside>>

\* ------------------------------------------------------ MainAsync and main
\* The coroutine MainAsync and the return of main.  A broker call is issued
\* in one step and completes in a later one; the broker answers what it
\* likes: a status, or (token requests) a winrt::hresult_error.
MaxAccounts == 2
\* Times the history of broker calls keeps a repetition of the same call.
MaxRetry == 2
EXIT_SUCCESS == 0
EXIT_FAILURE == 1
FindAllWebAccountsStatus == {"Success", "NotAllowedByProvider"}
WebTokenRequestStatus ==
    {"Success", "UserCancel", "UserInteractionRequired", "ProviderError"}
NoAccount == 0
Call(api, account) == [api |-> api, account |-> account]
\* The history of broker calls; a call repeated more than MaxRetry times is
\* no longer added.
Log(c, e) == IF Count(c, e) <= MaxRetry THEN Append(c, e) ELSE c
\* The silent request of the current pass of the loop.
SilentCall ==
    Call("GetTokenSilentlyAsync",
         IF webAccounts = <<>> THEN NoAccount ELSE webAccounts[iAccount + 1])

\* main up to the call of MainAsync, with the options parsed and no trace.
MainInit ==
    /\ Base64Rest
    /\ JwtRest
    /\ OutputRest
    /\ TracerRest
    /\ FormatRest
    /\ RequestRest
    /\ option \in [SignOut : BOOLEAN, ShowAccountsOnly : BOOLEAN]
    /\ co = "rest"
    /\ found = FALSE
    /\ accountsStatus = "none"
    /\ accounts = <<>>
    /\ visited = 0
    /\ webAccounts = <<>>
    /\ iAccount = 0
    /\ done = FALSE
    /\ pResult = "none"
    /\ calls = <<>>
    /\ reported = {}
    /\ result = <<>>
    /\ exitCode = <<>>
    /\ pending = {}
    /\ request = "none"
    /\ args = [Throws |-> FALSE, Unknown |-> FALSE, Help |-> FALSE,
               Version |-> FALSE, NoTrace |-> TRUE]

\* auto task = MainAsync(*option, hwnd): runs to the first co_await.
MainAsyncCall ==
    /\ co = "rest"
    /\ calls' = Log(calls, Call("FindAccountProviderAsync", NoAccount))
    /\ pending' = pending \cup {Call("FindAccountProviderAsync", NoAccount)}
    /\ co' = "provider_await"
    /\ UNCHANGED <<option, found, accountsStatus, accounts, visited,
                   webAccounts, iAccount, done, pResult, reported, result,
                   exitCode, request, args,
                   vars, formatVars, requestVars, idle>>

\* Variant of ResumeProvider: a null provider is not checked.
ResumeProvider_NoCheck ==
    /\ co = "provider_await"
    /\ \E p \in BOOLEAN : found' = p
    /\ calls' = Log(calls, Call("FindAllAccountsAsync", NoAccount))
    /\ pending' = {Call("FindAllAccountsAsync", NoAccount)}
    /\ co' = "accounts_await"
    /\ UNCHANGED <<reported, result>>
    /\ UNCHANGED <<option, accountsStatus, accounts, visited, webAccounts,
                   iAccount, done, pResult, exitCode, request, args, vars,
                   formatVars, requestVars, idle>>

\* FindAccountProviderAsync completes: if (not provider) co_return
\* EXIT_FAILURE; otherwise on to co_await FindAllAccountsAsync.
ResumeProvider ==
    /\ co = "provider_await"
    /\ \E p \in BOOLEAN :
          /\ found' = p
          /\ IF p
             THEN /\ calls' = Log(calls, Call("FindAllAccountsAsync",
                                              NoAccount))
                  /\ pending' = {Call("FindAllAccountsAsync", NoAccount)}
                  /\ co' = "accounts_await"
                  /\ UNCHANGED <<reported, result>>
             ELSE /\ reported' = reported \cup {"FindAccountProviderAsync"}
                  /\ result' = <<EXIT_FAILURE>>
                  /\ co' = "returned"
                  /\ pending' = {}
                  /\ UNCHANGED calls
    /\ UNCHANGED <<option, accountsStatus, accounts, visited, webAccounts,
                   iAccount, done, pResult, exitCode, request, args, vars,
                   formatVars, requestVars, idle>>

\* FindAllAccountsAsync completes: Success gives the accounts to the
\* range-for; any other status is logged and MainAsync goes on.
ResumeAccounts ==
    /\ co = "accounts_await"
    /\ \E status \in FindAllWebAccountsStatus, n \in 0..MaxAccounts :
          /\ status # "Success" => n = 0
          /\ accountsStatus' = status
          /\ accounts' = [a \in 1..n |-> a]
          /\ reported' = IF status = "Success" THEN reported
                         ELSE reported \cup {"FindAllAccountsAsync"}
    /\ visited' = 0
    /\ pending' = pending \ {Call("FindAllAccountsAsync", NoAccount)}
    /\ co' = "accounts_for"
    /\ UNCHANGED <<option, found, webAccounts, iAccount, done, pResult,
                   calls, result, exitCode, request, args,
                   vars, formatVars, requestVars, idle>>

\* Variant of ForAccount: the account is put at the front of webAccounts.
ForAccount_PushFront ==
    /\ co = "accounts_for"
    /\ visited < Len(accounts)
    /\ IF option.SignOut
       THEN /\ calls' = Log(calls, Call("SignOutAsync",
                                        accounts[visited + 1]))
            /\ pending' = pending \cup {Call("SignOutAsync",
                                             accounts[visited + 1])}
            /\ co' = "signout_get"
            /\ UNCHANGED <<webAccounts, visited>>
       ELSE /\ webAccounts' = <<accounts[visited + 1]>> \o webAccounts
            /\ visited' = visited + 1
            /\ UNCHANGED <<calls, pending, co>>
    /\ UNCHANGED <<option, found, accountsStatus, accounts, iAccount, done,
                   pResult, reported, result, exitCode, request, args, vars,
                   formatVars, requestVars, idle>>

\* One pass of for (const auto& account : accounts): under the sign-out
\* option account.SignOutAsync() is called and .get() waits for it;
\* otherwise webAccounts.push_back(account).
ForAccount ==
    /\ co = "accounts_for"
    /\ visited < Len(accounts)
    /\ IF option.SignOut
       THEN /\ calls' = Log(calls, Call("SignOutAsync",
                                        accounts[visited + 1]))
            /\ pending' = pending \cup {Call("SignOutAsync",
                                             accounts[visited + 1])}
            /\ co' = "signout_get"
            /\ UNCHANGED <<webAccounts, visited>>
       ELSE /\ webAccounts' = Append(webAccounts, accounts[visited + 1])
            /\ visited' = visited + 1
            /\ UNCHANGED <<calls, pending, co>>
    /\ UNCHANGED <<option, found, accountsStatus, accounts, iAccount, done,
                   pResult, reported, result, exitCode, request, args, vars,
                   formatVars, requestVars, idle>>

\* .get() returns: the sign-out has completed, on to the next account.
SignOutGet ==
    /\ co = "signout_get"
    /\ pending' = pending \ {Call("SignOutAsync", accounts[visited + 1])}
    /\ visited' = visited + 1
    /\ co' = "accounts_for"
    /\ UNCHANGED <<option, found, accountsStatus, accounts, webAccounts,
                   iAccount, done, pResult, calls, reported, result,
                   exitCode, request, args,
                   vars, formatVars, requestVars, idle>>

\* Variant of AfterAccounts: ShowAccountsOnly is not looked at.
AfterAccounts_NoShowOnly ==
    /\ co = "accounts_for"
    /\ visited = Len(accounts)
    /\ done' = FALSE
    /\ iAccount' = 0
    /\ request' = "Default"
    /\ co' = "silent"
    /\ UNCHANGED <<option, found, accountsStatus, accounts, visited,
                   webAccounts, pResult, calls, reported, result, exitCode,
                   pending, args, vars, formatVars, requestVars, idle>>

\* After the range-for: co_return EXIT_SUCCESS under ShowAccountsOnly,
\* otherwise done = false, i = 0, the request with prompt type Default is
\* built and the silent loop is entered.
AfterAccounts ==
    /\ co = "accounts_for"
    /\ visited = Len(accounts)
    /\ IF option.ShowAccountsOnly
       THEN /\ result' = <<EXIT_SUCCESS>>
            /\ co' = "returned"
            /\ UNCHANGED <<done, iAccount, request>>
       ELSE /\ done' = FALSE
            /\ iAccount' = 0
            /\ request' = "Default"
            /\ co' = "silent"
            /\ UNCHANGED result
    /\ UNCHANGED <<option, found, accountsStatus, accounts, visited,
                   webAccounts, pResult, calls, reported, exitCode, pending,
                   args, vars, formatVars, requestVars, idle>>

\* while (not done), try: co_await GetTokenSilentlyAsync(request) when no
\* account was collected, GetTokenSilentlyAsync(request, webAccounts[i])
\* otherwise.
SilentIssue ==
    /\ co = "silent"
    /\ ~done
    /\ calls' = Log(calls, SilentCall)
    /\ pending' = pending \cup {SilentCall}
    /\ co' = "silent_await"
    /\ UNCHANGED <<option, found, accountsStatus, accounts, visited,
                   webAccounts, iAccount, done, pResult, reported, result,
                   exitCode, request, args,
                   vars, formatVars, requestVars, idle>>

\* The silent request completes.  With a status: done = true, or
\* done = (++i == webAccounts.size()), and the status is printed.  With a
\* winrt::hresult_error the rest of the try block is skipped: the catch logs
\* it and the loop starts over with done and i as they were.
ResumeSilent ==
    /\ co = "silent_await"
    /\ \E outcome \in WebTokenRequestStatus \cup {"hresult_error"} :
          /\ pResult' = outcome
          /\ IF outcome = "hresult_error"
             THEN /\ reported' = reported \cup {"GetTokenSilentlyAsync"}
                  /\ UNCHANGED <<done, iAccount>>
             ELSE /\ UNCHANGED reported
                  /\ IF webAccounts = <<>>
                     THEN /\ done' = TRUE
                          /\ UNCHANGED iAccount
                     ELSE /\ iAccount' = iAccount + 1
                          /\ done' = (iAccount + 1 = Len(webAccounts))
    /\ pending' = pending \ {SilentCall}
    /\ co' = "silent"
    /\ UNCHANGED <<option, found, accountsStatus, accounts, visited,
                   webAccounts, calls, result, exitCode, request, args, vars,
                   formatVars, requestVars, idle>>

\* Variant of InteractiveIssue: the interactive request is started along
\* with the silent request still to be issued, not after the loop.
InteractiveIssue_Early ==
    /\ co = "silent"
    /\ request' = "ForceAuthentication"
    /\ calls' = Log(Log(calls, SilentCall), Call("RequestTokenAsync",
                                                 NoAccount))
    /\ pending' = pending \cup {SilentCall,
                                Call("RequestTokenAsync", NoAccount)}
    /\ co' = "interactive_await"
    /\ UNCHANGED <<option, found, accountsStatus, accounts, visited,
                   webAccounts, iAccount, done, pResult, reported, result,
                   exitCode, args, vars, formatVars, requestVars, idle>>

\* The silent loop is left: the request with prompt type
\* ForceAuthentication is built, co_await InvokeRequestTokenAsync(request,
\* hwnd).
InteractiveIssue ==
    /\ co = "silent"
    /\ done
    /\ request' = "ForceAuthentication"
    /\ calls' = Log(calls, Call("RequestTokenAsync", NoAccount))
    /\ pending' = pending \cup {Call("RequestTokenAsync", NoAccount)}
    /\ co' = "interactive_await"
    /\ UNCHANGED <<option, found, accountsStatus, accounts, visited,
                   webAccounts, iAccount, done, pResult, reported, result,
                   exitCode, args, vars, formatVars, requestVars, idle>>

\* The interactive request completes with a status or a hresult_error; both
\* are logged, and control flows off the end of MainAsync with no co_return.
ResumeInteractive ==
    /\ co = "interactive_await"
    /\ \E outcome \in WebTokenRequestStatus \cup {"hresult_error"} :
          reported' = IF outcome = "hresult_error"
                      THEN reported \cup {"RequestTokenAsync"}
                      ELSE reported
    /\ pending' = pending \ {Call("RequestTokenAsync", NoAccount)}
    /\ co' = "returned"
    /\ UNCHANGED <<option, found, accountsStatus, accounts, visited,
                   webAccounts, iAccount, done, pResult, calls, result,
                   exitCode, request, args,
                   vars, formatVars, requestVars, idle>>

\* return task.GetResults(): the value of co_return.  When MainAsync flowed
\* off its end no value was set (undefined behaviour for a coroutine whose
\* promise has return_value): main returns whatever the build yields.
MainReturn ==
    /\ co = "returned"
    /\ IF result = <<>>
       THEN exitCode' \in {<<EXIT_SUCCESS>>, <<EXIT_FAILURE>>}
       ELSE exitCode' = result
    /\ co' = "exited"
    /\ UNCHANGED <<option, found, accountsStatus, accounts, visited,
                   webAccounts, iAccount, done, pResult, calls, reported,
                   result, pending, request, args,
                   vars, formatVars, requestVars, idle>>

MainNext ==
    \/ MainAsyncCall
    \/ ResumeProvider
    \/ ResumeAccounts
    \/ ForAccount
    \/ SignOutGet
    \/ AfterAccounts
    \/ SilentIssue
    \/ ResumeSilent
    \/ InteractiveIssue
    \/ ResumeInteractive
    \/ MainReturn

MainSpec == MainInit /\ [][MainNext]_<<vars, outside>>

\* MainAsync runs on, and every broker call completes.
MainLiveSpec == MainSpec /\ WF_<<vars, outside>>(MainNext)

\* ------------------------------------------------------------ the whole run
\* main from ParseOption on: the parse result, EnableTrace, the first
\* Trace::Write calls, then MainAsync as above, with the consumer of the
\* trace writer running beside the main thread.
RunInit ==
    /\ Base64Rest
    /\ JwtRest
    /\ OutputRest
    /\ TracerRest
    /\ FormatRest
    /\ RequestRest
    /\ args \in [Throws : BOOLEAN, Unknown : BOOLEAN, Help : BOOLEAN,
                 Version : BOOLEAN, NoTrace : BOOLEAN]
    /\ option \in [SignOut : BOOLEAN, ShowAccountsOnly : BOOLEAN]
    /\ co = "start"
    /\ found = FALSE
    /\ accountsStatus = "none"
    /\ accounts = <<>>
    /\ visited = 0
    /\ webAccounts = <<>>
    /\ iAccount = 0
    /\ done = FALSE
    /\ pResult = "none"
    /\ calls = <<>>
    /\ reported = {}
    /\ result = <<>>
    /\ exitCode = <<>>
    /\ pending = {}
    /\ request = "none"

\* Variant of MainParse: as in the older main, help is looked at first and
\* unknown options end the run with 0.
MainParse_HelpFirst ==
    /\ co = "start"
    /\ IF args.Throws
       THEN /\ reported' = reported \cup {"ParseOption"}
            /\ exitCode' = <<EXIT_FAILURE>>
            /\ co' = "exited"
       ELSE IF args.Help
       THEN /\ exitCode' = <<EXIT_SUCCESS>>
            /\ co' = "exited"
            /\ UNCHANGED reported
       ELSE IF args.Unknown
       THEN /\ reported' = reported \cup {"UnknownOptions"}
            /\ exitCode' = <<EXIT_SUCCESS>>
            /\ co' = "exited"
       ELSE IF args.Version
       THEN /\ exitCode' = <<EXIT_SUCCESS>>
            /\ co' = "exited"
            /\ UNCHANGED reported
       ELSE /\ co' = "enable_trace"
            /\ UNCHANGED <<reported, exitCode>>
    /\ UNCHANGED <<option, found, accountsStatus, accounts, visited,
                   webAccounts, iAccount, done, pResult, calls, result,
                   pending, request, args, vars, formatVars, requestVars, idle>>

\* ParseOption and the checks of main that follow it: a parser exception or
\* unknown options print the error and return EXIT_FAILURE; help and version
\* return EXIT_SUCCESS.
MainParse ==
    /\ co = "start"
    /\ IF args.Throws \/ args.Unknown
       THEN /\ reported' = reported \cup
                  {IF args.Throws THEN "ParseOption" ELSE "UnknownOptions"}
            /\ exitCode' = <<EXIT_FAILURE>>
            /\ co' = "exited"
       ELSE IF args.Help \/ args.Version
       THEN /\ exitCode' = <<EXIT_SUCCESS>>
            /\ co' = "exited"
            /\ UNCHANGED reported
       ELSE /\ co' = "enable_trace"
            /\ UNCHANGED <<reported, exitCode>>
    /\ UNCHANGED <<option, found, accountsStatus, accounts, visited,
                   webAccounts, iAccount, done, pResult, calls, result,
                   pending, request, args, vars, formatVars, requestVars, idle>>

\* if (option->EnableTrace()) EnableTrace(*option), up to Trace::Enable:
\* without the path of the executable the error is printed and EnableTrace
\* returns.
MainEnableTrace ==
    /\ co = "enable_trace"
    /\ IF args.NoTrace
       THEN /\ co' = "trace_write"
            /\ UNCHANGED reported
       ELSE \E exePath \in BOOLEAN :
               IF exePath
               THEN /\ co' = "enabling"
                    /\ UNCHANGED reported
               ELSE /\ reported' = reported \cup {"GetModulePath"}
                    /\ co' = "trace_write"
    /\ UNCHANGED <<option, found, accountsStatus, accounts, visited,
                   webAccounts, iAccount, done, pResult, calls, result,
                   exitCode, pending, request, args,
                   vars, formatVars, requestVars, idle>>

\* Trace::Enable(path) inside EnableTrace.
RunEnable == co = "enabling" /\ lastOp[Main] = "none" /\ CallEnable

\* Variant of MainEnableTraceReturn: a failed Trace::Enable ends the run.
MainEnableTraceReturn_Abort ==
    /\ co = "enabling"
    /\ pc[Main] = "idle"
    /\ lastOp[Main] \in {"Enable:ok", "Enable:system_error"}
    /\ IF lastOp[Main] = "Enable:system_error"
       THEN /\ reported' = reported \cup {"Trace::Enable"}
            /\ exitCode' = <<EXIT_FAILURE>>
            /\ co' = "exited"
       ELSE /\ co' = "trace_write"
            /\ UNCHANGED <<reported, exitCode>>
    /\ UNCHANGED <<option, found, accountsStatus, accounts, visited,
                   webAccounts, iAccount, done, pResult, calls, result,
                   pending, request, args, vars, formatVars, requestVars, idle>>

\* Trace::Enable has returned or thrown: the catch of EnableTrace prints the
\* error, and main goes on in both cases.
MainEnableTraceReturn ==
    /\ co = "enabling"
    /\ pc[Main] = "idle"
    /\ lastOp[Main] \in {"Enable:ok", "Enable:system_error"}
    /\ reported' = IF lastOp[Main] = "Enable:system_error"
                   THEN reported \cup {"Trace::Enable"}
                   ELSE reported
    /\ co' = "trace_write"
    /\ UNCHANGED exitCode
    /\ UNCHANGED <<option, found, accountsStatus, accounts, visited,
                   webAccounts, iAccount, done, pResult, calls, result,
                   pending, request, args, vars, formatVars, requestVars, idle>>

\* Trace::Write of the version, the process id, the command line and the
\* user, by the main thread.
RunWrite == co = "trace_write" /\ WriteCall(Main)

\* On to CreateAnchorWindow and MainAsync.
MainTraceWritten ==
    /\ co = "trace_write"
    /\ pc[Main] = "idle"
    /\ lastOp[Main] \in {"Write:ok", "Write:noop"}
    /\ co' = "rest"
    /\ UNCHANGED <<option, found, accountsStatus, accounts, visited,
                   webAccounts, iAccount, done, pResult, calls, reported,
                   result, exitCode, pending, request, args, vars,
                   formatVars, requestVars, idle>>

RunNext ==
    \/ MainParse
    \/ MainEnableTrace
    \/ RunEnable
    \/ CtorAsync
    \/ CtorHeader
    \/ CtorReturn
    \/ MainEnableTraceReturn
    \/ RunWrite
    \/ WriteSend(Main)
    \/ WriteSet(Main)
    \/ MainTraceWritten
    \/ TaskWait
    \/ TaskReceive
    \/ TaskWrite
    \/ TaskCanceled
    \/ MainAsyncCall
    \/ ResumeProvider
    \/ ResumeAccounts
    \/ ForAccount
    \/ SignOutGet
    \/ AfterAccounts
    \/ SilentIssue
    \/ ResumeSilent
    \/ InteractiveIssue
    \/ ResumeInteractive
    \/ MainReturn

RunSpec == RunInit /\ [][RunNext]_<<vars, outside>>

\* ------------------------------- Option::Properties and GetWebTokenRequest
\* A -p argument is a string over PropChars.  "w" stands for the text
\* wam_compat, so that <<"w">> is the key the --wamcompat flag inserts.
\* Longest -p argument, and the number of -p arguments.
MaxArg == 3
MaxProps == 2
PropChars == {"w", "="}
PropTexts == UNION {[1..n -> PropChars] : n \in 0..MaxArg}
PropLists == UNION {[1..n -> PropTexts] : n \in 0..MaxProps}
WamCompatKey == <<"w">>
WamCompatValue == <<"2.0">>
ClaimKey == <<"claims">>
ClaimValue == <<"CP1">>
npos == 0

\* The position of the last c in s, or npos.
Find_Last(s, c) ==
    IF \E j \in 1..Len(s) : s[j] = c
    THEN CHOOSE j \in 1..Len(s) :
             s[j] = c /\ \A k \in (j + 1)..Len(s) : s[k] # c
    ELSE npos

\* std::string::find: the position (from 1) of the first c in s, or npos.
Find(s, c) ==
    IF \E j \in 1..Len(s) : s[j] = c
    THEN CHOOSE j \in 1..Len(s) :
             s[j] = c /\ \A k \in 1..(j - 1) : s[k] # c
    ELSE npos

\* IMap::Insert: the pair is added, or replaces the pair with this key.
Insert(m, key, val) ==
    [k \in DOMAIN m \cup {key} |-> IF k = key THEN val ELSE m[k]]

\* The pair replaces the one with this key.
emplace_Assign(m, key, val) == Insert(m, key, val)

\* unordered_map::emplace: nothing happens when the key is already there.
emplace(m, key, val) ==
    IF key \in DOMAIN m THEN m ELSE Insert(m, key, val)

RequestInit ==
    /\ Base64Rest
    /\ JwtRest
    /\ OutputRest
    /\ TracerRest
    /\ FormatRest
    /\ MainRest
    /\ propValues \in PropLists
    /\ flags \in [WamCompat : BOOLEAN, ClaimCapability : BOOLEAN]
    /\ propIndex = 0
    /\ map = <<>>
    /\ properties = <<>>
    /\ toInsert = {}
    /\ rpc = "flags"

\* GetWebTokenRequest up to the range-for: the two flags.  No trace is
\* enabled, so Trace::Write does nothing.
RequestFlags ==
    /\ rpc = "flags"
    /\ LET compat == IF flags.WamCompat
                     THEN Insert(properties, WamCompatKey, WamCompatValue)
                     ELSE properties
       IN properties' = IF flags.ClaimCapability
                        THEN Insert(compat, ClaimKey, ClaimValue)
                        ELSE compat
    /\ rpc' = "parse"
    /\ UNCHANGED <<propValues, flags, propIndex, map, toInsert, vars,
                   formatVars, mainVars, idle>>

\* One turn of the loop of Option::Properties.
ParseProperty ==
    /\ rpc = "parse"
    /\ propIndex < Len(propValues)
    /\ LET propValue == propValues[propIndex + 1]
           at == Find(propValue, "=")
           key == SubSeq(propValue, 1, at - 1)
           val == SubSeq(propValue, at + 1, Len(propValue))
       IN map' = IF at # npos THEN emplace(map, key, val) ELSE map
    /\ propIndex' = propIndex + 1
    /\ UNCHANGED <<propValues, flags, properties, toInsert, rpc, vars,
                   formatVars, mainVars, idle>>

\* The loop of Option::Properties ends and the map is returned.
ParseReturn ==
    /\ rpc = "parse"
    /\ propIndex = Len(propValues)
    /\ toInsert' = DOMAIN map
    /\ rpc' = "insert"
    /\ UNCHANGED <<propValues, flags, propIndex, map, properties, vars,
                   formatVars, mainVars, idle>>

\* One turn of a range-for that leaves the keys of the request alone.
InsertProperty_NoReplace ==
    /\ rpc = "insert"
    /\ \E key \in toInsert :
        /\ properties' = emplace(properties, key, map[key])
        /\ toInsert' = toInsert \ {key}
    /\ UNCHANGED <<propValues, flags, propIndex, map, rpc, vars, formatVars,
                   mainVars, idle>>

\* One turn of the range-for of GetWebTokenRequest; an unordered_map is
\* walked in an order of its own.
InsertProperty ==
    /\ rpc = "insert"
    /\ \E key \in toInsert :
        /\ properties' = Insert(properties, key, map[key])
        /\ toInsert' = toInsert \ {key}
    /\ UNCHANGED <<propValues, flags, propIndex, map, rpc, vars, formatVars,
                   mainVars, idle>>

\* The request is returned.
RequestReturn ==
    /\ rpc = "insert"
    /\ toInsert = {}
    /\ rpc' = "built"
    /\ UNCHANGED <<propValues, flags, propIndex, map, properties, toInsert,
                   vars, formatVars, mainVars, idle>>

RequestNext ==
    \/ RequestFlags
    \/ ParseProperty
    \/ ParseReturn
    \/ InsertProperty
    \/ RequestReturn

RequestSpec == RequestInit /\ [][RequestNext]_<<vars, outside>>

\* ------------------------------------------------------------------ base64
base64_chars ==
    <<"A", "B", "C", "D", "E", "F", "G", "H", "I", "J", "K", "L", "M",
      "N", "O", "P", "Q", "R", "S", "T", "U", "V", "W", "X", "Y", "Z",
      "a", "b", "c", "d", "e", "f", "g", "h", "i", "j", "k", "l", "m",
      "n", "o", "p", "q", "r", "s", "t", "u", "v", "w", "x", "y", "z",
      "0", "1", "2", "3", "4", "5", "6", "7", "8", "9", "+", "/">>
\* bit_stream is a uint32_t; over texts this short it stays below 2^25.
\* (bits >> shift) & mask, mask being 2^k - 1.
ShiftMask(bits, shift, mask) == (bits \div (2 ^ shift)) % (mask + 1)

\* The while loop of encode_into; gives the locals as the loop leaves them.
RECURSIVE encode_loop(_, _, _, _, _)
encode_loop(range, counter, bit_stream, offset, encoded) ==
    IF range = <<>>
    THEN [offset |-> offset, bit_stream |-> bit_stream, encoded |-> encoded]
    ELSE LET num_val == Head(range)
             off == 16 - (counter % 3) * 8
             bits == bit_stream + num_val * (2 ^ off)
             e16 == IF off = 16
                    THEN Append(encoded,
                                base64_chars[ShiftMask(bits, 18, 63) + 1])
                    ELSE encoded
             e8 == IF off = 8
                   THEN Append(e16, base64_chars[ShiftMask(bits, 12, 63) + 1])
                   ELSE e16
             flush == off = 0 /\ counter # 3
             e0 == IF flush
                   THEN e8 \o <<base64_chars[ShiftMask(bits, 6, 63) + 1],
                                base64_chars[ShiftMask(bits, 0, 63) + 1]>>
                   ELSE e8
         IN encode_loop(Tail(range), counter + 1,
                        IF flush THEN 0 ELSE bits, off, e0)

encode_into(range) ==
    LET loop == encode_loop(range, 0, 0, 0, <<>>)
        t16 == IF loop.offset = 16
               THEN loop.encoded
                    \o <<base64_chars[ShiftMask(loop.bit_stream, 12, 63) + 1],
                         "=", "=">>
               ELSE loop.encoded
    IN IF loop.offset = 8
       THEN t16 \o <<base64_chars[ShiftMask(loop.bit_stream, 6, 63) + 1],
                     "=">>
       ELSE t16

to_base64(range) == encode_into(range)

\* What a call gives: a value, or an exception.
Returned(v) == [threw |-> FALSE, value |-> v]
Thrown == [threw |-> TRUE, value |-> <<>>]

\* The for loop of decode_into.
RECURSIVE decode_loop(_, _, _, _)
decode_loop(input, counter, bit_stream, decoded) ==
    IF input = <<>> THEN Returned(decoded)
    ELSE LET c == Head(input)
             at == Find(base64_chars, c)
             num_val == at - 1
             offset == 18 - (counter % 4) * 6
             bits == bit_stream + num_val * (2 ^ offset)
             d12 == IF offset = 12
                    THEN Append(decoded, ShiftMask(bits, 16, 255))
                    ELSE decoded
             d6 == IF offset = 6
                   THEN Append(d12, ShiftMask(bits, 8, 255))
                   ELSE d12
             flush == offset = 0 /\ counter # 4
             d0 == IF flush THEN Append(d6, ShiftMask(bits, 0, 255)) ELSE d6
         IN IF at # npos
            THEN decode_loop(Tail(input), counter + 1,
                             IF flush THEN 0 ELSE bits, d0)
            ELSE IF c # "="
            THEN Thrown
            ELSE decode_loop(Tail(input), counter + 1, bit_stream, decoded)

decode_into(input) == decode_loop(input, 0, 0, <<>>)
from_base64(input) == decode_into(input)

\* std::replace
replace(s, old, new) == [j \in DOMAIN s |-> IF s[j] = old THEN new ELSE s[j]]

\* The variant that leaves '-' as it is.
decode_base64url_KeepMinus(base64url) ==
    LET replaced == replace(base64url, "_", "/")
        length == Len(base64url) % 4
    IN IF length = 0 THEN from_base64(replaced)
       ELSE IF length = 2 THEN from_base64(replaced \o <<"=", "=">>)
       ELSE IF length = 3 THEN from_base64(replaced \o <<"=">>)
       ELSE Thrown

decode_base64url(base64url) ==
    LET replaced == replace(replace(base64url, "-", "+"), "_", "/")
        length == Len(base64url) % 4
    IN IF length = 0 THEN from_base64(replaced)
       ELSE IF length = 2 THEN from_base64(replaced \o <<"=", "=">>)
       ELSE IF length = 3 THEN from_base64(replaced \o <<"=">>)
       ELSE Thrown


\* Byte sequences are encoded, turned into base64url as a token issuer
\* does, and decoded by decode_base64url.
MaxBytes == 4
Bytes == {0, 1, 77, 128, 251, 255}
ByteSeqs == UNION {[1..n -> Bytes] : n \in 0..MaxBytes}

\* base64url of a base64 text: no padding, '-' for '+' and '_' for '/'.
to_base64url(s) ==
    replace(replace(SelectSeq(s, LAMBDA c : c # "="), "+", "-"), "/", "_")

Base64Init ==
    /\ TracerRest
    /\ FormatRest
    /\ MainRest
    /\ RequestRest
    /\ JwtRest
    /\ OutputRest
    /\ bytes \in ByteSeqs
    /\ b64 = <<>>
    /\ url = <<>>
    /\ back = Returned(<<>>)
    /\ bpc = "encode"

Base64Encode ==
    /\ bpc = "encode"
    /\ b64' = to_base64(bytes)
    /\ bpc' = "url"
    /\ UNCHANGED <<bytes, url, back, vars, formatVars, mainVars,
                   requestVars, jwtVars, outputVars>>

Base64Url ==
    /\ bpc = "url"
    /\ url' = to_base64url(b64)
    /\ bpc' = "decode"
    /\ UNCHANGED <<bytes, b64, back, vars, formatVars, mainVars,
                   requestVars, jwtVars, outputVars>>

\* The variant that gives no bytes where decode_base64url throws.
Base64UrlDecode_Empty ==
    /\ bpc = "decode"
    /\ back' = IF decode_base64url(url).threw THEN Returned(<<>>)
               ELSE decode_base64url(url)
    /\ bpc' = "done"
    /\ UNCHANGED <<bytes, b64, url, vars, formatVars, mainVars,
                   requestVars, jwtVars, outputVars>>

Base64UrlDecode ==
    /\ bpc = "decode"
    /\ back' = decode_base64url(url)
    /\ bpc' = "done"
    /\ UNCHANGED <<bytes, b64, url, vars, formatVars, mainVars,
                   requestVars, jwtVars, outputVars>>

Base64Next ==
    \/ Base64Encode
    \/ Base64Url
    \/ Base64UrlDecode

Base64Spec == Base64Init /\ [][Base64Next]_<<vars, outside>>

\* decode_base64url over every short text, well formed or not.
MaxUrl == 5
UrlChars == {"A", "-", "_"}
UrlTexts == UNION {[1..n -> UrlChars] : n \in 0..MaxUrl}

DecodeInit ==
    /\ TracerRest
    /\ FormatRest
    /\ MainRest
    /\ RequestRest
    /\ JwtRest
    /\ OutputRest
    /\ bytes = <<>>
    /\ b64 = <<>>
    /\ url \in UrlTexts
    /\ back = Returned(<<>>)
    /\ bpc = "decode"

DecodeNext ==
    \/ Base64UrlDecode

DecodeSpec == DecodeInit /\ [][DecodeNext]_<<vars, outside>>

\* ---------------------------------------------------------------- PrintJwt
\* Longest token.
MaxToken == 6
TokenChars == {"A", "."}
Tokens == UNION {[1..n -> TokenChars] : n \in 0..MaxToken}

\* std::string_view::find(c, from): positions count from 1.
FindFrom(s, c, from) ==
    IF \E j \in from..Len(s) : s[j] = c
    THEN CHOOSE j \in from..Len(s) :
             s[j] = c /\ \A k \in from..(j - 1) : s[k] # c
    ELSE npos

\* A message: its text, and the raw token where the text holds it.
Line(what) == [text |-> what, raw |-> <<>>]
\* Logger::WriteLine, once for each message: Trace::Write, then
\* Console::WriteLine.
WriteLine(messages) ==
    /\ traced' = traced \o messages
    /\ console' = console \o messages

JwtInit ==
    /\ TracerRest
    /\ FormatRest
    /\ MainRest
    /\ RequestRest
    /\ Base64Rest
    /\ OutputRest
    /\ token \in Tokens
    /\ begin = 1
    /\ tokenParts = <<>>
    /\ decodes = <<>>
    /\ json = <<>>
    /\ jpc = "split"

\* One turn of the while loop of PrintJwt.
JwtSplit ==
    /\ jpc = "split"
    /\ LET end == FindFrom(token, ".", begin)
       IN IF end = npos
          THEN /\ tokenParts' =
                      Append(tokenParts, SubSeq(token, begin, Len(token)))
               /\ jpc' = "check"
               /\ UNCHANGED begin
          ELSE /\ tokenParts' =
                      Append(tokenParts, SubSeq(token, begin, end - 1))
               /\ begin' = end + 1
               /\ UNCHANGED jpc
    /\ UNCHANGED <<token, decodes, json, vars, formatVars, mainVars,
                   requestVars, base64Vars, outputVars>>

\* The token does not look like a JWT: PrintJwt returns.
JwtReturn ==
    /\ jpc = "check"
    /\ Len(tokenParts) # 3
    /\ jpc' = "not_jwt"
    /\ traced' = Append(traced, Line("Token does not look like a JWT"))
    /\ UNCHANGED <<token, begin, tokenParts, decodes, json, vars,
                   formatVars, mainVars, requestVars, base64Vars, rsp,
                   showToken, response, console>>

\* The variant that takes three parts or more.
JwtDecode_AtLeastThree ==
    /\ jpc = "check"
    /\ Len(tokenParts) >= 3
    /\ LET jsonHeader == decode_base64url(tokenParts[1])
           jsonPayload == decode_base64url(tokenParts[2])
       IN IF jsonHeader.threw \/ jsonPayload.threw
          THEN /\ decodes' = IF jsonHeader.threw THEN <<tokenParts[1]>>
                             ELSE <<tokenParts[1], tokenParts[2]>>
               /\ jpc' = "caught"
               /\ traced' = Append(traced, Line("Fail to decode Base64URL."))
               /\ UNCHANGED <<json, console>>
          ELSE /\ decodes' = <<tokenParts[1], tokenParts[2]>>
               /\ json' = <<jsonHeader.value, jsonPayload.value>>
               /\ jpc' = "printed"
               /\ WriteLine(<<Line("  JWT Header: "),
                              Line("  JWT Payload: ")>>)
    /\ UNCHANGED <<token, begin, tokenParts, vars, formatVars, mainVars,
                   requestVars, base64Vars, rsp, showToken, response>>

\* The try block of PrintJwt: header and payload are decoded and printed,
\* or the exception of a decode is caught.
JwtDecode ==
    /\ jpc = "check"
    /\ Len(tokenParts) = 3
    /\ LET jsonHeader == decode_base64url(tokenParts[1])
           jsonPayload == decode_base64url(tokenParts[2])
       IN IF jsonHeader.threw \/ jsonPayload.threw
          THEN /\ decodes' = IF jsonHeader.threw THEN <<tokenParts[1]>>
                             ELSE <<tokenParts[1], tokenParts[2]>>
               /\ jpc' = "caught"
               /\ traced' = Append(traced, Line("Fail to decode Base64URL."))
               /\ UNCHANGED <<json, console>>
          ELSE /\ decodes' = <<tokenParts[1], tokenParts[2]>>
               /\ json' = <<jsonHeader.value, jsonPayload.value>>
               /\ jpc' = "printed"
               /\ WriteLine(<<Line("  JWT Header: "),
                              Line("  JWT Payload: ")>>)
    /\ UNCHANGED <<token, begin, tokenParts, vars, formatVars, mainVars,
                   requestVars, base64Vars, rsp, showToken, response>>

JwtNext ==
    \/ JwtSplit
    \/ JwtReturn
    \/ JwtDecode

JwtSpec == JwtInit /\ [][JwtNext]_<<vars, outside>>

\* ------------------------------------------- the output of a token response
\* The silent loop of MainAsync from the status line of a successful
\* GetTokenSilentlyAsync to the blank line that ends the turn, with
\* PrintWebTokenResponse and PrintJwt in between.
ResponseInit ==
    /\ TracerRest
    /\ FormatRest
    /\ MainRest
    /\ RequestRest
    /\ Base64Rest
    /\ token \in Tokens
    /\ begin = 1
    /\ tokenParts = <<>>
    /\ decodes = <<>>
    /\ json = <<>>
    /\ jpc = "rest"
    /\ rsp = "status"
    /\ showToken \in BOOLEAN
    /\ response \in [Properties : 0..MaxProps, ProviderError : BOOLEAN]
    /\ console = <<>>
    /\ traced = <<>>

\* The variant that prints the status on the console only.
ResponseStatus_ConsoleOnly ==
    /\ rsp = "status"
    /\ console' =
           Append(console, Line("GetTokenSilentlyAsync's ResponseStatus: "))
    /\ rsp' = "response"
    /\ UNCHANGED <<showToken, response, traced, vars, formatVars, mainVars,
                   requestVars, base64Vars, jwtVars>>

\* Logger::WriteLine of the response status; the status is Success.
ResponseStatus ==
    /\ rsp = "status"
    /\ WriteLine(<<Line("GetTokenSilentlyAsync's ResponseStatus: ")>>)
    /\ rsp' = "response"
    /\ UNCHANGED <<showToken, response, vars, formatVars, mainVars,
                   requestVars, base64Vars, jwtVars>>

\* The variant that prints the token with Logger::WriteLine.
PrintWebTokenResponse_LogToken ==
    /\ rsp = "response"
    /\ WriteLine(<<Line("  WebAccount Id: ")>>
                 \o (IF showToken
                     THEN <<[text |-> "  Token: ", raw |-> token]>>
                     ELSE <<>>))
    /\ jpc' = "split"
    /\ rsp' = "jwt"
    /\ UNCHANGED <<token, begin, tokenParts, decodes, json, showToken,
                   response, vars, formatVars, mainVars, requestVars,
                   base64Vars>>

\* PrintWebTokenResponse up to the call of PrintJwt.
PrintWebTokenResponse ==
    /\ rsp = "response"
    /\ traced' = Append(traced, Line("  WebAccount Id: "))
    /\ console' = Append(console, Line("  WebAccount Id: "))
                  \o (IF showToken
                      THEN <<[text |-> "  Token: ", raw |-> token]>>
                      ELSE <<>>)
    /\ jpc' = "split"
    /\ rsp' = "jwt"
    /\ UNCHANGED <<token, begin, tokenParts, decodes, json, showToken,
                   response, vars, formatVars, mainVars, requestVars,
                   base64Vars>>

\* What PrintWebTokenResponse prints after PrintJwt.
PropertyLines ==
    <<Line("  WebTokenResponse Properties:\n")>>
    \o [j \in 1..response.Properties |-> Line("  [key,value]")]
    \o (IF response.ProviderError
        THEN <<Line("ErrorCode: ; ErrorMessage: ")>> ELSE <<>>)

\* The variant that goes on only when PrintJwt met no exception.
PrintProperties_Decoded ==
    /\ rsp = "jwt"
    /\ jpc \in {"not_jwt", "printed"}
    /\ WriteLine(PropertyLines)
    /\ rsp' = "blank"
    /\ UNCHANGED <<showToken, response, vars, formatVars, mainVars,
                   requestVars, base64Vars, jwtVars>>

\* PrintWebTokenResponse after PrintJwt has returned: the properties of the
\* response and PrintProviderError.
PrintProperties ==
    /\ rsp = "jwt"
    /\ jpc \in {"not_jwt", "caught", "printed"}
    /\ WriteLine(PropertyLines)
    /\ rsp' = "blank"
    /\ UNCHANGED <<showToken, response, vars, formatVars, mainVars,
                   requestVars, base64Vars, jwtVars>>

\* Console::WriteLine("") at the end of the turn of the silent loop.
LoopBlank ==
    /\ rsp = "blank"
    /\ console' = Append(console, Line(""))
    /\ rsp' = "next"
    /\ UNCHANGED <<showToken, response, traced, vars, formatVars, mainVars,
                   requestVars, base64Vars, jwtVars>>

ResponseNext ==
    \/ ResponseStatus
    \/ PrintWebTokenResponse
    \/ JwtSplit
    \/ JwtReturn
    \/ JwtDecode
    \/ PrintProperties
    \/ LoopBlank

ResponseSpec == ResponseInit /\ [][ResponseNext]_<<vars, outside>>

\* ================================================================ claims
FileRecords == SelectSeq(file, LAMBDA l : l # Header)
Index(s, x) == CHOOSE i \in 1..Len(s) : s[i] = x
\* Disable has returned and no writer was constructed since.
Disabled == enables > 0 /\ ~bufferAlive
InDisable == pc[Main] \in DtorStates
SingleProducer ==
    \A i, j \in 1..Len(enq) : enq[i].ThreadId = enq[j].ThreadId

\* C1: when Disable has returned, the file holds every record whose Write
\* returned while the writer was enabled and before Disable was called,
\* exactly once.
C1_ExactlyOnceAfterDisable ==
    Disabled => \A r \in accepted : Count(file, r) = 1

\* C2: with a single producer, when Disable has returned the records of the
\* file are in the order in which they were enqueued.
C2_EnqueueOrderAfterDisable ==
    (Disabled /\ SingleProducer) =>
        \A i, j \in 1..Len(FileRecords) :
            i < j => Index(enq, FileRecords[i]) < Index(enq, FileRecords[j])

\* C3: the file handle and the wake-signal handle are never closed while the
\* consumer task is still running (Disable closes them only after the
\* consumer has exited).
C3_HandlesOpenWhileTaskRuns ==
    writeTask \in TaskRunning => (hFile /\ hBuffReady)

\* C4: a record enqueued after the cancellation flag was set, by a Write that
\* had passed the enabled check, is in the file when Disable has returned.
C4_RacingRecordWritten ==
    Disabled => \A r \in raced : r \in Range(file)

\* C5: while Disable is not called, every record in the queue is eventually
\* written to the file by the consumer (under fair scheduling).
C5_QueuedEventuallyWritten ==
    \A r \in Records :
        (r \in Range(buffer)) ~> (r \in Range(file) \/ InDisable)

C5_Witness ==
    /\ tracer /\ enables = 1 /\ pc[Main] = "idle"
    /\ Len(FileRecords) >= 2
    /\ buffer = <<>> /\ writeTask = "parked"

\* C6: once Disable is called, the consumer eventually exits and Disable
\* returns (under fair scheduling).
C6_DisableReturns ==
    InDisable ~> (pc[Main] = "idle" /\ writeTask = "none" /\ ~tracer)

C6_Witness ==
    /\ lastOp[Main] = "Disable:ok" /\ pc[Main] = "idle"
    /\ writeTask = "none" /\ cts /\ Len(FileRecords) >= 1

\* C7: Enable on an enabled writer fails with an error and changes nothing
\* of the writer: file, queue, cancellation flag, consumer, handles.
C7_EnableTwiceFails ==
    [][(tracer /\ Enable) =>
          /\ lastOp'[Main] = "Enable:runtime_error"
          /\ UNCHANGED <<tracerState, pc, data, history>>]_vars

C7_Witness ==
    /\ lastOp[Main] = "Enable:runtime_error"
    /\ tracer /\ Len(FileRecords) >= 1 /\ writeTask \in TaskRunning

\* C8: Write with no writer enabled changes no state and raises no error.
C8_WriteDisabledNoOp ==
    [][\A t \in Writers :
          (~tracer /\ WriteCall(t)) =>
              /\ lastOp'[t] = "Write:noop"
              /\ UNCHANGED <<tracerState, pc, data, history>>]_vars

C8_Witness ==
    /\ lastOp["p1"] = "Write:noop" /\ lastOp[Main] = "Disable:ok"
    /\ ~tracer /\ file # <<>>

\* C9: a successful Enable has started exactly one consumer task and written
\* the header before it returns; the header is always the first line of the
\* file and occurs once.
C9_HeaderFirst ==
    /\ file # <<>> => file[1] = Header
    /\ Count(file, Header) <= 1
    /\ tracer => (file # <<>> /\ file[1] = Header)
    /\ (tracer /\ ~InDisable) => (tasks = 1 /\ writeTask \in TaskRunning)
    /\ tasks <= 1

C9_Witness ==
    /\ tracer /\ enables = 2 /\ lastOp[Main] = "Enable:ok"
    /\ Len(FileRecords) >= 1

\* C10: an Enable whose file cannot be opened reports the error and leaves
\* everything as it was: no writer, no consumer task, Write stays a no-op.
C10_OpenFailureLeavesNoWriter ==
    /\ [][(~tracer /\ CallEnable /\ pc'[Main] # "ctor_async") =>
             /\ lastOp'[Main] = "Enable:system_error"
             /\ UNCHANGED <<tracerState, pc, data, history>>]_vars
    /\ []((lastOp[Main] = "Enable:system_error" /\ pc[Main] = "idle") =>
             /\ ~tracer /\ ~bufferAlive /\ ~hFile /\ ~hBuffReady
             /\ tasks = 0 /\ writeTask = "none")

C10_Witness ==
    /\ lastOp[Main] = "Enable:system_error" /\ lastOp["p1"] = "Write:noop"
    /\ ~tracer /\ Len(FileRecords) >= 1

\* The writer is enabled: Enable has returned and Disable is not called.
Enabled == tracer /\ ~InDisable
\* The record the consumer has taken from the queue and not yet written.
InHand(r) == IF writeTask = "write" /\ data[Consumer] = r THEN 1 ELSE 0

C12_WriteNeverWaits ==
    /\ [](\A t \in Writers :
            /\ pc[t] = "send" => ENABLED WriteSend(t)
            /\ pc[t] = "set" => ENABLED WriteSet(t))
    /\ [][\A t \in Writers :
            (WriteCall(t) \/ WriteSend(t) \/ WriteSet(t)) => file' = file]_vars

C12_Witness ==
    /\ Enabled /\ lastOp["p1"] = "Write:ok" /\ pc["p1"] = "set"
    /\ Len(buffer) >= 1 /\ writeTask = "write" /\ file = <<Header>>

\* The message field of the formatted record: what is between the quotes of
\* the third field.
Persisted == SubSeq(formatted, 6, Len(formatted) - 2)
\* The lines a sequence of characters occupies in the file.
Lines(s) == Count(s, "\n")

\* C13: every record is persisted as exactly one line of the file, for every
\* message text, including a text with an embedded newline or with more
\* than one newline at its end.
C13_OneLinePerRecord ==
    fpc = "written" =>
        /\ Lines(formatted) = 1
        /\ formatted[Len(formatted)] = "\n"

\* C14: the persisted message is the text passed to Write with every double
\* quote replaced by a single quote and exactly one trailing newline removed
\* when the text ends with a newline; no other character is changed and the
\* persisted message holds no double quote.
C14_QuotesAndOneNewline ==
    fpc = "written" =>
        LET n == IF text # <<>> /\ text[Len(text)] = "\n"
                 THEN Len(text) - 1 ELSE Len(text)
        IN  /\ Len(Persisted) = n
            /\ \A j \in 1..n :
                  Persisted[j] = IF text[j] = "\"" THEN "'" ELSE text[j]
            /\ \A j \in 1..n : Persisted[j] # "\""
            /\ formatted = <<TimeField, ",", ThreadIdField, ",", "\"">>
                             \o Persisted \o <<"\"", "\n">>

C14_Witness ==
    /\ fpc = "written"
    /\ text = <<"\"", "\n", "\n">>
    /\ Persisted = <<"'", "\n">>

\* The broker calls of one kind issued so far, in order.
Issued(api) == SelectSeq(calls, LAMBDA c : c.api = api)
Threw == reported \cap {"GetTokenSilentlyAsync", "RequestTokenAsync"} # {}
Exited == co = "exited"

\* C15: no silent token request is retried: at most one silent request is
\* issued for each collected account, and at most one when no account was
\* collected, whether the request returns a status or throws.
C15_NoSilentRetry ==
    \A a \in 0..MaxAccounts :
        Count(calls, Call("GetTokenSilentlyAsync", a)) <= 1

\* C16: after a silent request that ended with an exception or a status
\* other than Success, the run still goes on to its end (through the
\* remaining silent requests and the interactive request), given that every
\* broker call completes.
C16_SilentFailureGoesOn ==
    (co = "silent" /\ pResult \notin {"none", "Success"}) ~> Exited

\* C17: when the enumeration of accounts completes with a status other than
\* Success, no silent and no interactive token request is issued and the
\* exit code is 1.
C17_EnumerationFailureAborts ==
    accountsStatus \notin {"none", "Success"} =>
        /\ Issued("GetTokenSilentlyAsync") = <<>>
        /\ Issued("RequestTokenAsync") = <<>>
        /\ Exited => exitCode = <<EXIT_FAILURE>>

\* C18: when no account provider is found, the error is reported, no further
\* broker call is issued and the exit code is 1.
C18_NoProviderAborts ==
    (co \notin {"rest", "provider_await"} /\ ~found) =>
        /\ "FindAccountProviderAsync" \in reported
        /\ calls = <<Call("FindAccountProviderAsync", NoAccount)>>
        /\ co \in {"returned", "exited"}
        /\ result = <<EXIT_FAILURE>>
        /\ Exited => exitCode = <<EXIT_FAILURE>>

C18_Witness ==
    Exited /\ ~found /\ exitCode = <<EXIT_FAILURE>> /\ option.SignOut

\* C19: a run in which the provider is found and the enumeration succeeds
\* ends with exit code 0, whatever the silent and interactive requests gave.
C19_ExitZero ==
    (Exited /\ found /\ accountsStatus = "Success") =>
        exitCode = <<EXIT_SUCCESS>>

\* The silent requests of a run: one per enumerated account, in order, or
\* one bound to no account.
SilentExpected ==
    IF accounts = <<>>
    THEN <<Call("GetTokenSilentlyAsync", NoAccount)>>
    ELSE [a \in 1..Len(accounts) |->
             Call("GetTokenSilentlyAsync", accounts[a])]

\* C20 as stated: without sign-out and without exceptions, the run issues
\* exactly one silent request per enumerated account, bound to it and in
\* enumeration order, and exactly one bound to no account when none was
\* enumerated.
C20_OneSilentPerAccount ==
    (Exited /\ ~option.SignOut /\ ~Threw) =>
        Issued("GetTokenSilentlyAsync") = SilentExpected

\* C20 amended: the same, for a run that reaches token acquisition (the
\* provider is found and show-accounts-only is not requested).
C20_OneSilentPerAccount_Acquiring ==
    (Exited /\ ~option.SignOut /\ ~Threw /\ found
            /\ ~option.ShowAccountsOnly) =>
        Issued("GetTokenSilentlyAsync") = SilentExpected

C20_Witness ==
    /\ Exited /\ ~option.SignOut /\ ~Threw /\ ~option.ShowAccountsOnly
    /\ Len(accounts) = 2 /\ pResult = "ProviderError"
    /\ Len(Issued("GetTokenSilentlyAsync")) = 2

SignOutCalls == {Call("SignOutAsync", a) : a \in 1..MaxAccounts}
Interactive == Call("RequestTokenAsync", NoAccount)
\* The run has left the range-for over the accounts and goes on to the
\* token requests.
Acquiring == request # "none"

\* C21: with sign-out requested and N accounts enumerated, the accounts are
\* signed out one at a time, in order, each sign-out completing before the
\* next account is processed; no account is kept for token requests; and
\* the run then issues exactly one silent request, bound to no account.
C21_SignOutThenOneSilent ==
    (option.SignOut /\ found /\ accountsStatus = "Success") =>
        /\ webAccounts = <<>>
        /\ pending \cap SignOutCalls # {} =>
              (co = "signout_get" /\ Cardinality(pending) = 1)
        /\ Acquiring =>
              Issued("SignOutAsync") =
                  [a \in 1..Len(accounts) |->
                      Call("SignOutAsync", accounts[a])]
        /\ (Exited /\ Acquiring) =>
              Issued("GetTokenSilentlyAsync") =
                  <<Call("GetTokenSilentlyAsync", NoAccount)>>

C23_ShowAccountsOnlyStops ==
    (option.ShowAccountsOnly /\ accountsStatus # "none") =>
        /\ Issued("GetTokenSilentlyAsync") = <<>>
        /\ Issued("RequestTokenAsync") = <<>>
        /\ co \in {"accounts_for", "signout_get", "returned", "exited"}
        /\ co \in {"returned", "exited"} =>
              /\ result = <<EXIT_SUCCESS>>
              /\ visited = Len(accounts)
              /\ option.SignOut =>
                    Len(Issued("SignOutAsync")) = Len(accounts)
        /\ Exited => exitCode = <<EXIT_SUCCESS>>

C23_Witness ==
    /\ Exited /\ option.ShowAccountsOnly /\ option.SignOut
    /\ Len(accounts) = 2 /\ exitCode = <<EXIT_SUCCESS>>

\* The broker calls of a finished run in which no call threw, as the
\* options and the answers of the broker determine them.
ExpectedCalls ==
    <<Call("FindAccountProviderAsync", NoAccount)>> \o
    (IF ~found THEN <<>>
     ELSE <<Call("FindAllAccountsAsync", NoAccount)>> \o
          (IF option.SignOut
           THEN [a \in 1..Len(accounts) |->
                    Call("SignOutAsync", accounts[a])]
           ELSE <<>>) \o
          (IF option.ShowAccountsOnly THEN <<>>
           ELSE (IF option.SignOut \/ accounts = <<>>
                 THEN <<Call("GetTokenSilentlyAsync", NoAccount)>>
                 ELSE [a \in 1..Len(accounts) |->
                          Call("GetTokenSilentlyAsync", accounts[a])])
                \o <<Interactive>>))
EarlyExit == args.Throws \/ args.Unknown \/ args.Help \/ args.Version

\* C24: when the parser reports an unknown option, the run prints the
\* unknown options and ends with exit code 1; no broker call is made (and
\* no trace is enabled).
C24_UnknownOptionExits ==
    (args.Unknown /\ ~args.Throws /\ co # "start") =>
        /\ "UnknownOptions" \in reported
        /\ Exited /\ exitCode = <<EXIT_FAILURE>>
        /\ calls = <<>> /\ pending = {}
        /\ ~tracer /\ enables = 0

C24_Witness ==
    /\ Exited /\ args.Unknown /\ args.Help /\ ~args.NoTrace
    /\ exitCode = <<EXIT_FAILURE>>

\* C25: when the trace file cannot be created the error is reported on the
\* console, no writer is enabled and the trace writes of the run are
\* no-ops; the run goes on and makes the broker calls that the options and
\* the broker's answers determine, the same as a run with tracing.
C25_TraceFailureGoesOn ==
    /\ (~args.NoTrace /\ ~tracer
          /\ co \notin {"start", "enable_trace", "enabling", "exited"}) =>
          reported \cap {"Trace::Enable", "GetModulePath"} # {}
    /\ "Trace::Enable" \in reported =>
          /\ ~tracer /\ ~bufferAlive /\ ~hFile /\ ~hBuffReady
          /\ tasks = 0 /\ writeTask = "none"
          /\ file = <<>> /\ buffer = <<>> /\ enq = <<>>
          /\ pc[Main] = "idle"
          /\ lastOp[Main] \in {"Enable:system_error", "Write:noop"}
          /\ co \notin {"enabling", "trace_write"} =>
                lastOp[Main] = "Write:noop"
    /\ (Exited /\ ~EarlyExit /\ ~Threw) => calls = ExpectedCalls

C25_Witness ==
    /\ Exited /\ "Trace::Enable" \in reported
    /\ lastOp[Main] = "Write:noop"
    /\ Len(webAccounts) = 2 /\ ~Threw /\ Interactive \in Range(calls)

\* The key/value pairs a -p argument stands for: the ways to write it as
\* key, '=', value with no '=' in the key.
Pairs(a) ==
    {p \in {SubSeq(a, 1, n) : n \in 0..Len(a)}
           \X {SubSeq(a, n, Len(a)) : n \in 1..(Len(a) + 1)} :
        a = p[1] \o <<"=">> \o p[2] /\ "=" \notin Range(p[1])}
\* The -p arguments that give this key.
Giving(key) ==
    {i \in 1..Len(propValues) : \E p \in Pairs(propValues[i]) : p[1] = key}
ValueOf(i) == (CHOOSE p \in Pairs(propValues[i]) : TRUE)[2]
First(S) == CHOOSE i \in S : \A j \in S : i <= j
Last(S) == CHOOSE i \in S : \A j \in S : j <= i
Duplicates ==
    \E key \in PropTexts : \E i, j \in Giving(key) : ValueOf(i) # ValueOf(j)

C27_SplitOnFirstEquals ==
    [][propIndex' = propIndex + 1 =>
        LET a == propValues[propIndex + 1]
        IN  /\ "=" \notin Range(a) => map' = map
            /\ \A p \in Pairs(a) :
                /\ DOMAIN map' = DOMAIN map \cup {p[1]}
                /\ p[1] \notin DOMAIN map => map'[p[1]] = p[2]
                /\ \A k \in DOMAIN map : map'[k] = map[k]
            /\ "=" \in Range(a) => Pairs(a) # {}
            /\ rpc' = "parse"]_<<vars, outside>>

C27_Witness ==
    /\ rpc = "built"
    /\ propValues = <<<<"w", "=", "=">>, <<"w">>>>
    /\ map = (<<"w">> :> <<"=">>)

Dots(s) == Cardinality({j \in DOMAIN s : s[j] = "."})
C29_JwtHasThreeParts ==
    /\ jpc \in {"split", "check"} => decodes = <<>> /\ json = <<>>
    /\ jpc = "not_jwt" => Dots(token) # 2 /\ decodes = <<>> /\ json = <<>>
    /\ jpc \in {"caught", "printed"} => Dots(token) = 2 /\ decodes # <<>>
    /\ jpc = "check" => Len(tokenParts) = Dots(token) + 1

C29_Witness ==
    /\ jpc = "not_jwt"
    /\ Dots(token) > 2
    /\ \E j \in DOMAIN tokenParts : Len(tokenParts[j]) > 1

\* C30: decode_base64url gives back the bytes whose base64 text, without
\* padding and with '-' for '+' and '_' for '/', it is given.
C30_Base64UrlRoundTrip ==
    bpc = "done" =>
        /\ back = Returned(bytes)
        /\ Range(url) \cap {"=", "+", "/"} = {}

C30_Witness ==
    /\ bpc = "done"
    /\ {"-", "_"} \subseteq Range(url)
    /\ Len(b64) = Len(url) + 2
    /\ Len(bytes) = 4

\* C31: decode_base64url throws for every text whose length has remainder 1
\* modulo 4; for the other lengths it decodes the text padded with '=' to a
\* multiple of 4 (none, two or one), which gives three bytes for every four
\* characters.
Padded(s) ==
    CHOOSE p \in {s, s \o <<"=">>, s \o <<"=", "=">>} : Len(p) % 4 = 0
C31_PaddingByLength ==
    bpc = "done" =>
        IF Len(url) % 4 = 1 THEN back.threw
        ELSE /\ ~back.threw
             /\ Len(back.value) = (Len(url) * 3) \div 4
             /\ back = from_base64(
                    replace(replace(Padded(url), "-", "+"), "_", "/"))

C31_Witness ==
    /\ bpc = "done"
    /\ Len(url) = 5
    /\ back.threw

\* C32: Disable called while no writer is enabled changes no state and
\* raises no error; called right after a Disable that has returned, it
\* leaves the state that Disable left.
C32_DisableIdempotent ==
    [][/\ (~tracer /\ Disable) =>
              /\ lastOp'[Main] = "Disable:noop"
              /\ UNCHANGED <<tracerState, pc, data, history>>
       /\ (lastOp[Main] = "Disable:ok" /\ Disable) =>
              /\ lastOp'[Main] = "Disable:noop"
              /\ UNCHANGED <<tracerState, pc, data, history>>]_vars

C32_Witness ==
    /\ lastOp[Main] = "Disable:noop"
    /\ Disabled
    /\ Len(FileRecords) >= 1

\* C33: the thread inside ~CsvTracer and the consumer task are never both
\* inside WriteAllMessages (between try_receive and ::WriteFile) at once.
C33_OneDrainer ==
    ~(/\ pc[Main] \in {"dtor_receive", "dtor_write"}
      /\ writeTask \in {"receive", "write"})

RECURSIVE IsSubSeq(_, _)
IsSubSeq(a, b) ==
    IF a = <<>> THEN TRUE
    ELSE IF b = <<>> THEN FALSE
    ELSE IF Head(a) = Head(b) THEN IsSubSeq(Tail(a), Tail(b))
    ELSE IsSubSeq(a, Tail(b))
TextsOf(s) == {s[j].text : j \in DOMAIN s}

\* C34: every message printed on the console was also given to the trace,
\* and the console shows them in the order the trace got them.
C34_ConsoleAlsoTraced == IsSubSeq(console, traced)

\* C34 (amended): leaving out the raw-token line and the blank line on the
\* console, and the two diagnostics of PrintJwt in the trace, console and
\* trace hold the same messages in the same order.
C34_LoggerLinesInBoth ==
    SelectSeq(console, LAMBDA m : m.text \notin {"  Token: ", ""})
    = SelectSeq(traced,
                LAMBDA m : m.text \notin {"Token does not look like a JWT",
                                          "Fail to decode Base64URL."})

C34_Witness ==
    /\ rsp = "next" /\ showToken /\ jpc = "printed"
    /\ response.Properties >= 1
    /\ Len(console) > Len(traced)

\* C35: an exception of decode_base64url in PrintJwt is logged to the trace
\* and goes no further: PrintWebTokenResponse prints the rest of the
\* response and the loop goes on to its next step.
C35_DecodeFailureCaught ==
    /\ jpc = "caught" =>
           /\ "Fail to decode Base64URL." \in TextsOf(traced)
           /\ "Fail to decode Base64URL." \notin TextsOf(console)
    /\ (rsp = "jwt" /\ jpc = "caught") => ENABLED PrintProperties
    /\ rsp = "blank" => ENABLED LoopBlank
    /\ (rsp \in {"blank", "next"} /\ jpc = "caught") =>
           /\ IsSubSeq(PropertyLines, console)
           /\ IsSubSeq(PropertyLines, traced)
           /\ traced[Len(traced)].text # "Fail to decode Base64URL."

C35_Witness ==
    /\ rsp = "next" /\ jpc = "caught"
    /\ Len(decodes) = 2
    /\ response.Properties >= 1

\* C36: no message given to the trace holds the raw token; the console gets
\* the token line exactly when show-token was asked for.
C36_TokenNotTraced ==
    /\ \A j \in DOMAIN traced :
           traced[j].raw = <<>> /\ traced[j].text # "  Token: "
    /\ \A j \in DOMAIN console :
           console[j].text = "  Token: " =>
               showToken /\ console[j].raw = token
    /\ (rsp \in {"jwt", "blank", "next"} /\ showToken) =>
           "  Token: " \in TextsOf(console)

C36_Witness ==
    /\ rsp = "next" /\ showToken
    /\ Len(token) = MaxToken
    /\ \E j \in DOMAIN console : console[j].raw = token
    /\ Len(traced) >= 4

====
